---- MODULE Spec2Model ----
(***************************************************************************)
(* Model of the HackRx retrieval-and-decision webhook (index.js): the      *)
(* POST /hackrx/run handler with its helpers cosine, chunkText,            *)
(* fetchAndExtract and embedTexts.                                         *)
(*                                                                         *)
(* Text is modelled by TLA+ strings (Len, SubSeq and \o act on them), so   *)
(* slicing, whitespace normalisation, lower-casing and substring search    *)
(* are computed character by character as the JavaScript does.             *)
(***************************************************************************)
EXTENDS Integers, Sequences, FiniteSets, TLC

(***************************************************************************)
(* String primitives of JavaScript used by the program.                    *)
(***************************************************************************)
Min(a, b) == IF a <= b THEN a ELSE b

\* String.prototype.slice(from, to) for 0 <= from, 0 <= to (0-based, to exclusive).
Slice(s, from, to) ==
  LET hi == Min(to, Len(s))
  IN IF from >= hi THEN "" ELSE SubSeq(s, from + 1, hi)

\* The character at 1-based position i.
CharAt(s, i) == SubSeq(s, i, i)

\* The characters the regular expression class \s matches (those that occur in the model's texts).
IsSpace(c) == c \in {" ", "\n", "\t", "\r"}

\* String.prototype.includes.
Includes(s, k) ==
  \E i \in 1..(Len(s) - Len(k) + 1) : SubSeq(s, i, i + Len(k) - 1) = k

\* String.prototype.endsWith.
EndsWith(s, k) ==
  Len(s) >= Len(k) /\ SubSeq(s, Len(s) - Len(k) + 1, Len(s)) = k

UpperToLower ==
  [c \in {"A","B","C","D","E","F","G","H","I","J","K","L","M",
          "N","O","P","Q","R","S","T","U","V","W","X","Y","Z"} |->
     CASE c = "A" -> "a" [] c = "B" -> "b" [] c = "C" -> "c" [] c = "D" -> "d"
       [] c = "E" -> "e" [] c = "F" -> "f" [] c = "G" -> "g" [] c = "H" -> "h"
       [] c = "I" -> "i" [] c = "J" -> "j" [] c = "K" -> "k" [] c = "L" -> "l"
       [] c = "M" -> "m" [] c = "N" -> "n" [] c = "O" -> "o" [] c = "P" -> "p"
       [] c = "Q" -> "q" [] c = "R" -> "r" [] c = "S" -> "s" [] c = "T" -> "t"
       [] c = "U" -> "u" [] c = "V" -> "v" [] c = "W" -> "w" [] c = "X" -> "x"
       [] c = "Y" -> "y" [] c = "Z" -> "z"]

\* String.prototype.toLowerCase, computed by halving the string.
RECURSIVE toLowerCase(_)
toLowerCase(s) ==
  IF Len(s) = 0 THEN ""
  ELSE IF Len(s) = 1
       THEN (IF s \in DOMAIN UpperToLower THEN UpperToLower[s] ELSE s)
       ELSE LET m == Len(s) \div 2
            IN toLowerCase(SubSeq(s, 1, m)) \o toLowerCase(SubSeq(s, m + 1, Len(s)))

\* s.replace(/\s+/g, " "): every maximal run of whitespace becomes one space.
\* Computed by halving: the two halves are collapsed and a run that spans the
\* cut is merged.
RECURSIVE CollapseSpaces(_)
CollapseSpaces(s) ==
  IF Len(s) = 0 THEN ""
  ELSE IF Len(s) = 1
       THEN (IF IsSpace(s) THEN " " ELSE s)
       ELSE LET m == Len(s) \div 2
                l == CollapseSpaces(SubSeq(s, 1, m))
                r == CollapseSpaces(SubSeq(s, m + 1, Len(s)))
            IN IF CharAt(l, Len(l)) = " " /\ CharAt(r, 1) = " "
               THEN l \o SubSeq(r, 2, Len(r))
               ELSE l \o r

\* String.prototype.trim on a string whose whitespace runs are single spaces.
TrimCollapsed(s) ==
  LET a == IF Len(s) > 0 /\ IsSpace(CharAt(s, 1)) THEN 2 ELSE 1
      b == IF Len(s) > 0 /\ IsSpace(CharAt(s, Len(s))) THEN Len(s) - 1 ELSE Len(s)
  IN IF a > b THEN "" ELSE SubSeq(s, a, b)

\* c.replace(/\s+/g, " ").trim()
NormalizeChunk(c) == TrimCollapsed(CollapseSpaces(c))

\* s repeated n times.
RECURSIVE Repeat(_, _)
Repeat(s, n) ==
  IF n = 0 THEN ""
  ELSE IF n = 1 THEN s
       ELSE LET h == Repeat(s, n \div 2)
            IN IF n % 2 = 0 THEN h \o h ELSE h \o h \o s

(***************************************************************************)
(* chunkText(text, chunkSize, overlap)                                     *)
(***************************************************************************)
\* The window pushed for window start i: text.slice(i, i + chunkSize).
ChunkWindow(text, i, chunkSize) == Slice(text, i, i + chunkSize)

\* A chunker that forgets the overlap when it advances.
ChunkAdvanceNoOverlap(i, chunkSize, overlap) == i + chunkSize

\* The next window start: i += chunkSize - overlap.
ChunkAdvance(i, chunkSize, overlap) == i + chunkSize - overlap

RECURSIVE ChunkFrom(_, _, _, _)
ChunkFrom(text, i, chunkSize, overlap) ==
  IF i < Len(text)
  THEN <<ChunkWindow(text, i, chunkSize)>>
         \o ChunkFrom(text, ChunkAdvance(i, chunkSize, overlap), chunkSize, overlap)
  ELSE <<>>

chunkText(text, chunkSize, overlap) == ChunkFrom(text, 0, chunkSize, overlap)

\* chunkText(txt, 900, 150) in the handler.
ChunkSize == 900
ChunkOverlap == 150

(***************************************************************************)
(* cosine(a, b).  A similarity is the real number dot / (magA * magB); the  *)
(* model keeps it exactly, as the pair [n, d] that stands for               *)
(* sign(n) * sqrt(|n| / d), i.e. n = sign(dot) * dot^2 and                  *)
(* d = magA^2 * magB^2.  The map x |-> sign(x) * x^2 is strictly            *)
(* increasing, so order and equality of similarities are those of the       *)
(* pairs compared by cross-multiplication.                                  *)
(***************************************************************************)
RECURSIVE SumTo(_, _)
\* a.reduce((s, v, i) => s + f(i), 0) for f given as a sequence of terms.
SumTo(terms, n) == IF n = 0 THEN 0 ELSE SumTo(terms, n - 1) + terms[n]

Dot(a, b) ==
  SumTo([i \in 1..Len(a) |-> a[i] * (IF i <= Len(b) THEN b[i] ELSE 0)], Len(a))

SumSquares(a) == SumTo([i \in 1..Len(a) |-> a[i] * a[i]], Len(a))

Sign(k) == IF k > 0 THEN 1 ELSE IF k < 0 THEN -1 ELSE 0

ZeroScore == [n |-> 0, d |-> 1]

cosine(a, b) ==
  LET dot == Dot(a, b)
      magA2 == SumSquares(a)
      magB2 == SumSquares(b)
  IN IF magA2 = 0 \/ magB2 = 0 THEN ZeroScore
     ELSE [n |-> Sign(dot) * dot * dot, d |-> magA2 * magB2]

\* The sign of the number x - y for two similarities.
ScoreDiffSign(x, y) == Sign(x.n * y.d - y.n * x.d)

(***************************************************************************)
(* JavaScript values (JSON values and undefined), tagged by type.          *)
(***************************************************************************)
Undef == [t |-> "undefined"]
Null == [t |-> "null"]
Str(s) == [t |-> "string", s |-> s]
Num(k) == [t |-> "number", n |-> k]
\* A number that is a similarity computed by cosine.
ScoreNum(s) == [t |-> "number", cos |-> s]
Arr(a) == [t |-> "array", a |-> a]
Obj(o) == [t |-> "object", o |-> o]

IsNullish(v) == v.t \in {"undefined", "null"}

IsZeroNumber(v) ==
  /\ v.t = "number"
  /\ IF "cos" \in DOMAIN v THEN v.cos.n = 0 ELSE v.n = 0

\* ToBoolean: the operand of !, || and of a condition.
Truthy(v) ==
  /\ ~IsNullish(v)
  /\ ~(v.t = "string" /\ v.s = "")
  /\ ~IsZeroNumber(v)

\* a || b
OrElse(a, b) == IF Truthy(a) THEN a ELSE b

\* a ?? b
Coalesce(a, b) == IF IsNullish(a) THEN b ELSE a

\* Whether reading a property of v throws a TypeError.
PropertyReadThrows(v) == IsNullish(v)

\* v[k] for a value v that is not null or undefined: a property of an object,
\* undefined for a missing property and for the named properties of primitives
\* and arrays that the program reads.
GetProp(v, k) ==
  IF v.t = "object" /\ k \in DOMAIN v.o THEN v.o[k] ELSE Undef

(***************************************************************************)
(* The documents the requests refer to: what fetch, pdf-parse, mammoth and *)
(* the base64 decoder yield for them.                                      *)
(***************************************************************************)
OrthoText == "orthopedic procedures are covered after a 2-month waiting period"

PreexText == "pre-existing conditions are excluded for the first 12 months"

PreexHtml ==
  "<html><body><p>Pre-existing conditions are excluded for the first 12 months</p>\n</body></html>"

BenefitText == "Benefit is   payable\n within 30 days of discharge."

BenefitBase64 == "QmVuZWZpdCBpcyAgIHBheWFibGUKIHdpdGhpbiAzMCBkYXlzIG9mIGRpc2NoYXJnZS4="

BlankText == "  \n\n \t "

\* The length of one section of the policy document: the stride of the handler's windows.
SectionLength == ChunkSize - ChunkOverlap

\* One section of the policy document: a sentence followed by layout whitespace.
PolicySection(sentence) ==
  sentence \o Repeat(" \n", (SectionLength - Len(sentence)) \div 2)

PolicyText ==
  PolicySection("Section 1. Knee surgery is covered.")
    \o PolicySection("Section 2. Cosmetic surgery is an exclusion.")
    \o PolicySection("Section 3. Definitions.")
    \o PolicySection("Section 4. Claims are payable to the insured.")
    \o PolicySection("Section 5. Not eligible during the waiting period.")
    \o PolicySection("Section 6. Jurisdiction is Pune.")
    \o "End of policy."

UrlMissing == "https://docs.example/missing.txt"
UrlOrtho == "https://docs.example/ortho.docx"
UrlPreex == "https://docs.example/preex"
UrlPolicy == "https://docs.example/policy.pdf"
UrlBlank == "https://docs.example/blank.txt"
FileBenefit == "Benefit.TXT"

\* A document reference of a request: a URL string, or an object {filename, content}.
UrlItem(u) == [kind |-> "url", ref |-> u, content |-> ""]
InlineItem(f, c) == [kind |-> "inline", ref |-> f, content |-> c]

Items ==
  { UrlItem(UrlMissing), UrlItem(UrlOrtho), UrlItem(UrlPreex), UrlItem(UrlPolicy),
    UrlItem(UrlBlank), InlineItem(FileBenefit, BenefitBase64) }

DocxType == "application/vnd.openxmlformats-officedocument.wordprocessingml.document"

\* fetch(url): the response, or threw for a network error.
Fetch(u) ==
  CASE u = UrlMissing -> [threw |-> FALSE, ok |-> FALSE, status |-> 404, contentType |-> "text/plain", body |-> "Not Found"]
    [] u = UrlOrtho -> [threw |-> FALSE, ok |-> TRUE, status |-> 200, contentType |-> DocxType, body |-> "PK:ortho"]
    [] u = UrlPreex -> [threw |-> FALSE, ok |-> TRUE, status |-> 200, contentType |-> "text/html; charset=utf-8", body |-> PreexHtml]
    [] u = UrlPolicy -> [threw |-> FALSE, ok |-> TRUE, status |-> 200, contentType |-> "", body |-> "%PDF:policy"]
    [] u = UrlBlank -> [threw |-> FALSE, ok |-> TRUE, status |-> 200, contentType |-> "text/plain", body |-> BlankText]
    [] OTHER -> [threw |-> TRUE, ok |-> FALSE, status |-> 0, contentType |-> "", body |-> ""]

\* pdf(buffer): the extracted text, or threw for bytes that are no PDF.
PdfParse(bytes) ==
  IF bytes = "%PDF:policy" THEN [threw |-> FALSE, text |-> PolicyText]
  ELSE [threw |-> TRUE, text |-> ""]

\* mammoth.extractRawText({buffer}): the raw text, or threw for bytes that are no DOCX.
DocxExtract(bytes) ==
  IF bytes = "PK:ortho" THEN [threw |-> FALSE, text |-> OrthoText]
  ELSE [threw |-> TRUE, text |-> ""]

\* Buffer.from(content, "base64"), read back with toString("utf8").
Base64Utf8(content) ==
  IF content = BenefitBase64 THEN BenefitText ELSE ""

(***************************************************************************)
(* fetchAndExtract(urlOrData)                                              *)
(***************************************************************************)
\* The first position after i that holds no whitespace (Len(s) + 1 when none).
RECURSIVE SkipSpaces(_, _)
SkipSpaces(s, i) ==
  IF i <= Len(s) /\ IsSpace(CharAt(s, i)) THEN SkipSpaces(s, i + 1) ELSE i

\* Whether word, compared without case, stands at position i of s.
WordAt(s, i, word) ==
  /\ i + Len(word) - 1 <= Len(s)
  /\ toLowerCase(SubSeq(s, i, i + Len(word) - 1)) = word

\* /<\s*html|<\s*body|<\s*p|<\s*div/i.test(txt)
LooksLikeHtml(txt) ==
  \E i \in 1..Len(txt) :
    /\ CharAt(txt, i) = "<"
    /\ \E word \in {"html", "body", "p", "div"} : WordAt(txt, SkipSpaces(txt, i + 1), word)

\* The least position >= i of s that holds c, 0 when there is none.
RECURSIVE IndexFrom(_, _, _)
IndexFrom(s, c, i) ==
  IF i > Len(s) THEN 0
  ELSE IF CharAt(s, i) = c THEN i ELSE IndexFrom(s, c, i + 1)

\* txt.replace(/<[^>]*>/g, " "): every "<" up to the next ">" becomes a space.
RECURSIVE StripTags(_)
StripTags(txt) ==
  LET open == IndexFrom(txt, "<", 1)
      close == IF open = 0 THEN 0 ELSE IndexFrom(txt, ">", open + 1)
  IN IF open = 0 \/ close = 0 THEN txt
     ELSE SubSeq(txt, 1, open - 1) \o " "
            \o StripTags(SubSeq(txt, close + 1, Len(txt)))

\* The value of `source` in the catch branch is urlOrData itself: the URL, or
\* for an object its rendering as a string.
ItemAsSource(item) == IF item.kind = "url" THEN item.ref ELSE "[object Object]"

Extracted(text, source) == [text |-> text, source |-> source, error |-> ""]
ExtractFailed(item, message) == [text |-> "", source |-> ItemAsSource(item), error |-> message]

\* filename || fallback
FilenameOr(item, fallback) == IF item.ref = "" THEN fallback ELSE item.ref

fetchAndExtract(item) ==
  IF item.kind = "inline" /\ item.content # ""
  THEN LET name == toLowerCase(item.ref)
           bytes == item.content
       IN IF EndsWith(name, ".pdf")
          THEN (IF PdfParse(bytes).threw THEN ExtractFailed(item, "Invalid PDF structure")
                ELSE Extracted(PdfParse(bytes).text, FilenameOr(item, "uploaded.pdf")))
          ELSE IF EndsWith(name, ".docx")
          THEN (IF DocxExtract(bytes).threw THEN ExtractFailed(item, "Could not find file in options")
                ELSE Extracted(DocxExtract(bytes).text, FilenameOr(item, "uploaded.docx")))
          ELSE Extracted(Base64Utf8(bytes), FilenameOr(item, "uploaded"))
  ELSE LET res == Fetch(item.ref)
           urlLower == toLowerCase(item.ref)
       IN IF item.kind # "url" \/ res.threw THEN ExtractFailed(item, "fetch failed")
          ELSE IF ~res.ok THEN ExtractFailed(item, "Fetch failed")
          ELSE IF Includes(res.contentType, "application/pdf") \/ EndsWith(urlLower, ".pdf")
          THEN (IF PdfParse(res.body).threw THEN ExtractFailed(item, "Invalid PDF structure")
                ELSE Extracted(PdfParse(res.body).text, item.ref))
          ELSE IF Includes(res.contentType, DocxType) \/ EndsWith(urlLower, ".docx")
          THEN (IF DocxExtract(res.body).threw THEN ExtractFailed(item, "Could not find file in options")
                ELSE Extracted(DocxExtract(res.body).text, item.ref))
          ELSE Extracted(IF LooksLikeHtml(res.body) THEN StripTags(res.body) ELSE res.body,
                         item.ref)

(***************************************************************************)
(* The embedding provider.  A deterministic stand-in gives a chunk text    *)
(* the vector <approval markers, rejection markers, non-empty>; the vector *)
(* of the query is chosen by the provider among QueryVectors.              *)
(***************************************************************************)
Count(S) == Cardinality(S)

EmbedOf(text) ==
  LET low == toLowerCase(text)
  IN << Count({k \in {"covered", "payable"} : Includes(low, k)}),
        Count({k \in {"exclu", "waiting period"} : Includes(low, k)}),
        IF text = "" THEN 0 ELSE 1 >>

QueryVectors == { <<1, 0, 0>>, <<0, 1, 0>>, <<1, -1, 0>>, <<0, 0, 0>> }

QueryText == "46M, knee surgery, Pune, 3-month policy"

(***************************************************************************)
(* The chat completions the generative provider may return, and what       *)
(* JSON.parse yields for the brace-delimited part of each.                 *)
(***************************************************************************)
LlmProse == "I cannot determine the outcome from these clauses."

LlmUnclosed == "{ \"decision\": \"approved\", \"amount\": 100"

LlmNotJson == "{decision: approved}"

LlmApprovedOnly == "{\"decision\":\"approved\"}"

LlmRejectedOnly == "{\"decision\":\"rejected\"}"

LlmTwoObjects == LlmApprovedOnly \o " or " \o LlmRejectedOnly

LlmFull ==
  "{\"decision\":\"approved\",\"amount\":50000,\"justification\":[{\"clause\":\"Knee surgery is covered\",\"source\":\"policy wording\",\"chunk_index\":0,\"similarity\":1}],\"explain_prompt\":\"Covered under clause 1\"}"

LlmPartial ==
  "{\"decision\":\"rejected\",\"amount\":null,\"justification\":[{\"clause\":\"waiting period applies\"},{}],\"explain_prompt\":\"Clause 1\"}"

LlmFenced == "Here is the decision:\n" \o LlmPartial \o "\nEnd of answer."

LlmEmptyObject == "{}"

LlmYes == "{\"decision\":\"yes\"}"

LlmNullEntry ==
  "{\"decision\":\"rejected\",\"amount\":null,\"justification\":[null],\"explain_prompt\":\"Clause 1\"}"

LlmStringJustification ==
  "{\"decision\":\"maybe\",\"amount\":null,\"justification\":\"see clause 1\",\"explain_prompt\":\"unsure\"}"

LlmPrimitiveEntries ==
  "{\"decision\":\"approved\",\"amount\":0,\"justification\":[5,\"clause 2\"],\"explain_prompt\":\"ok\"}"

LlmManualReview ==
  "{\"decision\":\"manual_review\",\"amount\":null,\"justification\":[],\"explain_prompt\":\"needs a human\"}"

LlmTexts ==
  { "", LlmProse, LlmUnclosed, LlmNotJson, LlmTwoObjects, LlmFull, LlmFenced,
    LlmEmptyObject, LlmYes, LlmNullEntry, LlmStringJustification,
    LlmPrimitiveEntries, LlmManualReview }

\* JSON.parse(text): the value, or threw (a SyntaxError) for a text that is no JSON.
JsonParse(text) ==
  CASE text = LlmFull ->
         [threw |-> FALSE, value |-> Obj([decision |-> Str("approved"), amount |-> Num(50000),
            justification |-> Arr(<<Obj([clause |-> Str("Knee surgery is covered"),
                                         source |-> Str("policy wording"),
                                         chunk_index |-> Num(0), similarity |-> Num(1)])>>),
            explain_prompt |-> Str("Covered under clause 1")])]
    [] text = LlmPartial ->
         [threw |-> FALSE, value |-> Obj([decision |-> Str("rejected"), amount |-> Null,
            justification |-> Arr(<<Obj([clause |-> Str("waiting period applies")]),
                                    Obj(<<>>)>>),
            explain_prompt |-> Str("Clause 1")])]
    [] text = LlmEmptyObject -> [threw |-> FALSE, value |-> Obj(<<>>)]
    [] text = LlmApprovedOnly -> [threw |-> FALSE, value |-> Obj([decision |-> Str("approved")])]
    [] text = LlmRejectedOnly -> [threw |-> FALSE, value |-> Obj([decision |-> Str("rejected")])]
    [] text = LlmYes -> [threw |-> FALSE, value |-> Obj([decision |-> Str("yes")])]
    [] text = LlmNullEntry ->
         [threw |-> FALSE, value |-> Obj([decision |-> Str("rejected"), amount |-> Null,
            justification |-> Arr(<<Null>>), explain_prompt |-> Str("Clause 1")])]
    [] text = LlmStringJustification ->
         [threw |-> FALSE, value |-> Obj([decision |-> Str("maybe"), amount |-> Null,
            justification |-> Str("see clause 1"), explain_prompt |-> Str("unsure")])]
    [] text = LlmPrimitiveEntries ->
         [threw |-> FALSE, value |-> Obj([decision |-> Str("approved"), amount |-> Num(0),
            justification |-> Arr(<<Num(5), Str("clause 2")>>),
            explain_prompt |-> Str("ok")])]
    [] text = LlmManualReview ->
         [threw |-> FALSE, value |-> Obj([decision |-> Str("manual_review"), amount |-> Null,
            justification |-> Arr(<<>>), explain_prompt |-> Str("needs a human")])]
    [] OTHER -> [threw |-> TRUE, value |-> Undef]

\* The greatest position <= i of s that holds c, 0 when there is none.
RECURSIVE LastIndexFrom(_, _, _)
LastIndexFrom(s, c, i) ==
  IF i < 1 THEN 0
  ELSE IF CharAt(s, i) = c THEN i ELSE LastIndexFrom(s, c, i - 1)

\* llmText.match(/(\{[\s\S]*\})/): from the first "{" to the last "}" after it.
JsonMatch(llmText) ==
  LET open == IndexFrom(llmText, "{", 1)
      close == LastIndexFrom(llmText, "}", Len(llmText))
  IN IF open = 0 \/ close < open
     THEN [found |-> FALSE, text |-> ""]
     ELSE [found |-> TRUE, text |-> SubSeq(llmText, open, close)]

\* let parsed = null; try { ... if (jsonMatch) parsed = JSON.parse(jsonMatch[1]) } catch {}
ParseLlm(llmText) ==
  LET m == JsonMatch(llmText)
  IN IF m.found /\ ~JsonParse(m.text).threw THEN JsonParse(m.text).value ELSE Null

(***************************************************************************)
(* Steps 2 and 5 of the handler: chunk records and the semantic search.    *)
(***************************************************************************)
\* docChunks.forEach((c, idx) => chunks.push({...})) for document di (0-based).
DocChunks(doc, di) ==
  LET txt == doc.text \o "\n"
      docChunks == chunkText(txt, ChunkSize, ChunkOverlap)
  IN [idx \in 1..Len(docChunks) |->
        [text |-> NormalizeChunk(docChunks[idx]), source |-> doc.source,
         doc_index |-> di, chunk_index |-> idx - 1]]

RECURSIVE AllChunks(_, _)
\* docs.forEach((doc, di) => ...) over the first n documents.
AllChunks(ds, n) ==
  IF n = 0 THEN <<>> ELSE AllChunks(ds, n - 1) \o DocChunks(ds[n], n - 1)

\* const K = Math.min(6, chunks.length)
TopKLimit == 6
TopK(n) == Min(TopKLimit, n)

\* A comparator that sorts ascending.
CompareScoredAscending(a, b) == ScoreDiffSign(a.score, b.score)

\* The comparator (a, b) => b.score - a.score: negative when a sorts before b.
CompareScored(a, b) == ScoreDiffSign(b.score, a.score)

\* The position at which e enters an already sorted prefix: after every element
\* the comparator does not put behind it (Array.prototype.sort is stable).
RECURSIVE InsertPosition(_, _, _)
InsertPosition(sorted, e, i) ==
  IF i > Len(sorted) \/ CompareScored(sorted[i], e) > 0 THEN i
  ELSE InsertPosition(sorted, e, i + 1)

InsertSorted(sorted, e) ==
  LET p == InsertPosition(sorted, e, 1)
  IN SubSeq(sorted, 1, p - 1) \o <<e>> \o SubSeq(sorted, p, Len(sorted))

RECURSIVE SortScored(_, _)
\* scored.sort((a, b) => b.score - a.score) of the first n elements.
SortScored(scored, n) ==
  IF n = 0 THEN <<>> ELSE InsertSorted(SortScored(scored, n - 1), scored[n])

\* scored = chunks.map(c => ({...c, score: cosine(qEmb, c.embedding)})); sort; slice(0, K)
Rank(cs, q) ==
  LET scored == [i \in 1..Len(cs) |->
                   [text |-> cs[i].text, source |-> cs[i].source,
                    doc_index |-> cs[i].doc_index, chunk_index |-> cs[i].chunk_index,
                    embedding |-> cs[i].embedding,
                    score |-> cosine(q, cs[i].embedding)]]
  IN SubSeq(SortScored(scored, Len(scored)), 1, TopK(Len(cs)))

(***************************************************************************)
(* Step 7 onwards: fallback heuristic and justification repair.            *)
(***************************************************************************)
\* A rejection list that lost "waiting period".
rejectKeywordsShort ==
  {"not covered", "exclusion", "deductible not", "pre-existing", "not eligible", "excludes"}

rejectKeywords ==
  {"not covered", "exclusion", "deductible not", "pre-existing", "waiting period",
   "not eligible", "excludes"}

approveKeywords ==
  {"covered", "shall be paid", "payable", "benefit", "eligible", "entitled"}

RECURSIVE JoinLower(_, _)
\* top.map(t => t.text.toLowerCase()).join(" ") over the first n elements.
JoinLower(tp, n) ==
  IF n = 0 THEN ""
  ELSE IF n = 1 THEN toLowerCase(tp[1].text)
       ELSE JoinLower(tp, n - 1) \o " " \o toLowerCase(tp[n].text)

\* A heuristic in which a rejection keyword wins over an approval keyword.
HeuristicDecisionRejectFirst(joined) ==
  IF \E k \in rejectKeywords : Includes(joined, k) THEN "rejected"
  ELSE IF \E k \in approveKeywords : Includes(joined, k) THEN "approved"
  ELSE "maybe"

\* foundReject && !foundApprove ? "rejected" : (foundApprove && !foundReject ? "approved" : "maybe")
HeuristicDecision(joined) ==
  LET foundReject == \E k \in rejectKeywords : Includes(joined, k)
      foundApprove == \E k \in approveKeywords : Includes(joined, k)
  IN IF foundReject /\ ~foundApprove THEN "rejected"
     ELSE IF foundApprove /\ ~foundReject THEN "approved"
     ELSE "maybe"

\* t.text.slice(0, 300)
ExcerptLength == 300

\* top.map(t => ({clause: t.text.slice(0,300), source, chunk_index, similarity: t.score}))
TopJustification(tp) ==
  Arr([i \in 1..Len(tp) |->
         Obj([clause |-> Str(Slice(tp[i].text, 0, ExcerptLength)),
              source |-> Str(tp[i].source),
              chunk_index |-> Num(tp[i].chunk_index),
              similarity |-> ScoreNum(tp[i].score)])])

FallbackMessage == "LLM did not return parsable JSON; fallback heuristic used."

\* The object built when parsing failed.
FallbackResult(tp, llmText) ==
  Obj([decision |-> Str(HeuristicDecision(JoinLower(tp, Len(tp)))),
       amount |-> Null,
       justification |-> TopJustification(tp),
       explain_prompt |-> Str(IF llmText = "" THEN FallbackMessage ELSE llmText)])

\* The entry that replaces entry j at position i (1-based) of parsed.justification.
RepairEntry(j, tp, i) ==
  LET has == i <= Len(tp)
      topText == IF has THEN Str(Slice(tp[i].text, 0, ExcerptLength)) ELSE Undef
      topSource == IF has THEN Str(tp[i].source) ELSE Undef
      topIndex == IF has THEN Num(tp[i].chunk_index) ELSE Undef
      topScore == IF has THEN ScoreNum(tp[i].score) ELSE Undef
  IN Obj([clause |-> OrElse(OrElse(GetProp(j, "clause"), topText), Str("")),
          source |-> OrElse(OrElse(GetProp(j, "source"), topSource), Str("")),
          chunk_index |-> Coalesce(Coalesce(GetProp(j, "chunk_index"), topIndex), Null),
          similarity |-> Coalesce(Coalesce(GetProp(j, "similarity"), topScore), Null)])

\* parsed with its justification property set to value.
WithJustification(parsed, value) ==
  Obj([k \in DOMAIN parsed.o \cup {"justification"} |->
         IF k = "justification" THEN value ELSE parsed.o[k]])

\* Lines 223-268: the value of `parsed` after the fallback or the repair, or
\* threw when the repair reads a property of a null entry.
Synthesize(tp, llmText) ==
  LET parsed == ParseLlm(llmText)
      just == GetProp(parsed, "justification")
  IN IF ~Truthy(parsed)
     THEN [threw |-> FALSE, results |-> FallbackResult(tp, llmText)]
     ELSE IF just.t = "array"
     THEN (IF \E i \in 1..Len(just.a) : PropertyReadThrows(just.a[i])
           THEN [threw |-> TRUE, results |-> Undef]
           ELSE [threw |-> FALSE,
                 results |-> WithJustification(parsed,
                    Arr([i \in 1..Len(just.a) |-> RepairEntry(just.a[i], tp, i)]))])
     ELSE [threw |-> FALSE, results |-> WithJustification(parsed, TopJustification(tp))]

(***************************************************************************)
(* State.                                                                  *)
(***************************************************************************)
VARIABLES
  pc,         \* where the handler of the request stands
  req,        \* req.body: documents and query as received
  documents,  \* the handler's `documents` after the Array.isArray normalisation
  docs,       \* the extracted documents
  chunks,     \* the chunk records
  results,    \* embedTexts' `results`: the embeddings received so far
  qEmb,       \* the embedding of the query
  top,        \* the selected scored chunks
  completion, \* the chat call: "none" before it ends, then "returned" or "failed"
  llmText,    \* the text of the completion
  response,   \* the HTTP response sent: status and body
  calls,      \* how many calls were made to each external collaborator
  ct          \* one run of chunkText's loop: text, chunkSize, overlap, i, chunks

vars == <<pc, req, documents, docs, chunks, results, qEmb, top, completion, llmText, response, calls, ct>>

\* The largest number of documents of a request.
MaxDocs == 2

RECURSIVE SeqsUpTo(_, _)
\* The sequences over S of length at most n.
SeqsUpTo(S, n) ==
  IF n = 0 THEN {<<>>}
  ELSE SeqsUpTo(S, n - 1) \cup {Append(q, e) : q \in [1..(n - 1) -> S], e \in S}

\* req.body as the client may send it: documents absent, one reference, or an
\* array of references; query absent, empty or a text.
Requests ==
  { [documents |-> d, query |-> q] :
      d \in {Undef} \cup {[t |-> "item", item |-> i] : i \in Items}
              \cup {Arr(a) : a \in SeqsUpTo(Items, MaxDocs)},
      q \in {Undef, Str(""), Str(QueryText)} }

NoResponse == [status |-> 0]
ErrorResponse(status, message) == [status |-> status, error |-> message]
\* res.json({meta, input, results}); the timestamp is left out.
SuccessResponse(r) ==
  [status |-> 200,
   meta |-> [chunks_indexed |-> Len(chunks), top_k |-> Len(top)],
   input |-> [query |-> req.query, documents |-> documents],
   results |-> r]

IdleChunker == [pc |-> "idle", text |-> "", chunkSize |-> 0, overlap |-> 0, i |-> 0, chunks |-> <<>>]

Init ==
  /\ pc = "start"
  /\ req \in Requests
  /\ documents = <<>>
  /\ docs = <<>>
  /\ chunks = <<>>
  /\ results = <<>>
  /\ qEmb = <<>>
  /\ top = <<>>
  /\ completion = "none"
  /\ llmText = ""
  /\ response = NoResponse
  /\ calls = [extract |-> 0, embed |-> 0, chat |-> 0]
  /\ ct = IdleChunker

(***************************************************************************)
(* The handler of POST /hackrx/run, one action per stretch between awaits. *)
(***************************************************************************)
\* if (!documents): a document reference and an array are truthy.
MissingDocuments(body) == ~Truthy(body.documents)

\* A validation that tests the query for null only.
MissingQueryNullOnly(body) == body.query.t = "null"

\* if (!query)
MissingQuery(body) == ~Truthy(body.query)

\* Lines 151-161: validation, then the normalisation of documents to an array.
Validate ==
  /\ pc = "start"
  /\ IF MissingDocuments(req)
     THEN /\ response' = ErrorResponse(400, "Missing 'documents' (URL or array) in request body.")
          /\ pc' = "done"
          /\ UNCHANGED documents
     ELSE IF MissingQuery(req)
     THEN /\ response' = ErrorResponse(400, "Missing 'query' in request body.")
          /\ pc' = "done"
          /\ UNCHANGED documents
     ELSE /\ documents' = IF req.documents.t = "array" THEN req.documents.a
                          ELSE <<req.documents.item>>
          /\ pc' = "extract"
          /\ UNCHANGED response
  /\ UNCHANGED <<req, docs, chunks, results, qEmb, top, completion, llmText, calls, ct>>

\* Lines 165-168: one turn of the extraction loop.
ExtractDoc ==
  /\ pc = "extract"
  /\ Len(docs) < Len(documents)
  /\ docs' = Append(docs, fetchAndExtract(documents[Len(docs) + 1]))
  /\ calls' = [calls EXCEPT !.extract = @ + 1]
  /\ UNCHANGED <<pc, req, documents, chunks, results, qEmb, top, completion, llmText, response, ct>>

\* Lines 170-190: chunking and the no-content check.
ChunkDocs ==
  /\ pc = "extract"
  /\ Len(docs) = Len(documents)
  /\ LET cs == AllChunks(docs, Len(docs))
     IN /\ chunks' = cs
        /\ IF Len(cs) = 0
           THEN /\ response' = ErrorResponse(400, "No extractable text found in documents.")
                /\ pc' = "done"
           ELSE /\ pc' = "embed"
                /\ UNCHANGED response
  /\ UNCHANGED <<req, documents, docs, results, qEmb, top, completion, llmText, calls, ct>>

\* const BATCH = 10
BATCH == 10

\* Lines 137-144 and 192: one batch of embedTexts; after the last batch the
\* embeddings are attached to the chunks.
EmbedBatch ==
  /\ pc = "embed"
  /\ Len(results) < Len(chunks)
  /\ calls' = [calls EXCEPT !.embed = @ + 1]
  /\ \E failed \in BOOLEAN :
       IF failed
       THEN /\ response' = ErrorResponse(500, "Connection error.")
            /\ pc' = "done"
            /\ UNCHANGED <<results, chunks>>
       ELSE LET i == Len(results)
                slice == SubSeq(chunks, i + 1, Min(i + BATCH, Len(chunks)))
                got == results \o [k \in 1..Len(slice) |-> EmbedOf(slice[k].text)]
            IN /\ results' = got
               /\ IF Len(got) < Len(chunks)
                  THEN UNCHANGED <<pc, chunks>>
                  ELSE /\ pc' = "embedQuery"
                       /\ chunks' = [k \in 1..Len(chunks) |->
                            [text |-> chunks[k].text, source |-> chunks[k].source,
                             doc_index |-> chunks[k].doc_index,
                             chunk_index |-> chunks[k].chunk_index,
                             embedding |-> got[k]]]
               /\ UNCHANGED response
  /\ UNCHANGED <<req, documents, docs, qEmb, top, completion, llmText, ct>>

\* Lines 195-213: the query embedding, then the semantic search.
EmbedQuery ==
  /\ pc = "embedQuery"
  /\ calls' = [calls EXCEPT !.embed = @ + 1]
  /\ \E failed \in BOOLEAN :
       IF failed
       THEN /\ response' = ErrorResponse(500, "Connection error.")
            /\ pc' = "done"
            /\ UNCHANGED <<qEmb, top>>
       ELSE \E q \in QueryVectors :
              /\ qEmb' = q
              /\ top' = Rank(chunks, q)
              /\ pc' = "chat"
              /\ UNCHANGED response
  /\ UNCHANGED <<req, documents, docs, chunks, results, completion, llmText, ct>>

\* Lines 216-285: the completion returns (or the call fails), the output is
\* parsed, repaired or replaced by the heuristic, and the response is sent.
ChatComplete ==
  /\ pc = "chat"
  /\ calls' = [calls EXCEPT !.chat = @ + 1]
  /\ pc' = "done"
  /\ \E failed \in BOOLEAN :
       IF failed
       THEN /\ response' = ErrorResponse(500, "Request timed out.")
            /\ completion' = "failed"
            /\ UNCHANGED llmText
       ELSE \E text \in LlmTexts :
              /\ completion' = "returned"
              /\ llmText' = text
              /\ LET out == Synthesize(top, text)
                 IN response' =
                      IF out.threw
                      THEN ErrorResponse(500, "Cannot read properties of null (reading 'clause')")
                      ELSE SuccessResponse(out.results)
  /\ UNCHANGED <<req, documents, docs, chunks, results, qEmb, top, ct>>

Next == Validate \/ ExtractDoc \/ ChunkDocs \/ EmbedBatch \/ EmbedQuery \/ ChatComplete

Spec == Init /\ [][Next]_vars

(***************************************************************************)
(* chunkText as the loop it is, on arbitrary small inputs.                 *)
(***************************************************************************)
\* The longest text and the largest window of the chunkText runs.
MaxTextLen == 4
MaxChunkSize == 4

ChunkAlphabet == {"a", "b"}

RECURSIVE TextsUpTo(_)
\* The strings over ChunkAlphabet of length at most n.
TextsUpTo(n) ==
  IF n = 0 THEN {""}
  ELSE TextsUpTo(n - 1) \cup {t \o c : t \in {u \in TextsUpTo(n - 1) : Len(u) = n - 1}, c \in ChunkAlphabet}

ChunkInit ==
  /\ pc = "idle"
  /\ req = [documents |-> Undef, query |-> Undef]
  /\ documents = <<>>
  /\ docs = <<>>
  /\ chunks = <<>>
  /\ results = <<>>
  /\ qEmb = <<>>
  /\ top = <<>>
  /\ completion = "none"
  /\ llmText = ""
  /\ response = NoResponse
  /\ calls = [extract |-> 0, embed |-> 0, chat |-> 0]
  /\ \E text \in TextsUpTo(MaxTextLen), size \in 1..MaxChunkSize :
       \E overlap \in 0..(size - 1) :
         ct = [pc |-> "loop", text |-> text, chunkSize |-> size, overlap |-> overlap,
               i |-> 0, chunks |-> <<>>]

\* Lines 72-76: one turn of the while loop.
ChunkLoop ==
  /\ ct.pc = "loop"
  /\ ct.i < Len(ct.text)
  /\ ct' = [ct EXCEPT !.chunks = Append(@, ChunkWindow(ct.text, ct.i, ct.chunkSize)),
                      !.i = ChunkAdvance(ct.i, ct.chunkSize, ct.overlap)]
  /\ UNCHANGED <<pc, req, documents, docs, chunks, results, qEmb, top, completion, llmText, response, calls>>

\* Line 77: return chunks.
ChunkReturn ==
  /\ ct.pc = "loop"
  /\ ~(ct.i < Len(ct.text))
  /\ ct' = [ct EXCEPT !.pc = "returned"]
  /\ UNCHANGED <<pc, req, documents, docs, chunks, results, qEmb, top, completion, llmText, response, calls>>

ChunkNext == ChunkLoop \/ ChunkReturn

\* The loop is sequential code: it runs on while it can.
ChunkSpec == ChunkInit /\ [][ChunkNext]_vars /\ WF_vars(ChunkNext)

(***************************************************************************)
(* Properties.                                                             *)
(***************************************************************************)
IsError == "error" \in DOMAIN response
IsSuccess == response.status = 200 /\ "results" \in DOMAIN response
\* The entries of results.justification of a success response.
Justification == response.results.o["justification"].a
\* The handler took the fallback: the completion returned and parsing left `parsed` null.
HeuristicPath == pc = "done" /\ completion = "returned" /\ ParseLlm(llmText) = Null
\* The request reached the ranking.
RankingDone == pc = "chat" \/ (pc = "done" /\ completion # "none")
JoinedTop == JoinLower(top, Len(top))

\* C1: when every document of a non-empty list yields empty text, the request
\* ends in the no-content error and no embedding call is ever made.
C1_NoContentNoEmbedding ==
  (/\ Len(documents) > 0
   /\ Len(docs) = Len(documents)
   /\ \A i \in 1..Len(docs) : docs[i].text = "")
  => /\ calls.embed = 0
     /\ (pc = "done" =>
           response = ErrorResponse(400, "No extractable text found in documents."))

\* C2: whenever the generative call returns, whatever its text, the handler
\* answers with the success envelope and never with the 500 error.
C2_ContentNeverFatal ==
  (pc = "done" /\ completion = "returned") => IsSuccess

\* C3: in every success response every justification entry has a non-empty
\* source and its (source, chunk_index) are those of a chunk of the top-K set.
C3_JustificationTraceable ==
  IsSuccess =>
    \A i \in 1..Len(Justification) :
      LET e == Justification[i].o
      IN /\ e.source.t = "string"
         /\ e.source.s # ""
         /\ \E k \in 1..Len(top) :
              /\ top[k].source = e.source.s
              /\ e.chunk_index = Num(top[k].chunk_index)

\* A well-formed DecisionResult.
WellFormedDecision(r) ==
  /\ r.t = "object"
  /\ {"decision", "amount", "justification", "explain_prompt"} \subseteq DOMAIN r.o
  /\ r.o["decision"].t = "string"
  /\ r.o["decision"].s \in {"approved", "rejected", "maybe", "manual_review"}
  /\ r.o["amount"].t \in {"number", "null"}
  /\ r.o["justification"].t = "array"
  /\ r.o["explain_prompt"].t = "string"

\* C4: every request ends either in an error object or in a success envelope
\* whose results is a well-formed DecisionResult.
C4_ErrorOrWellFormed ==
  pc = "done" =>
    \/ IsError /\ ~IsSuccess
    \/ IsSuccess /\ ~IsError /\ WellFormedDecision(response.results)

\* The positions of character c in text.
PositionsOf(text, c) == {i \in 1..Len(text) : CharAt(text, i) = c}

\* No part of the text, from a "{" to a "}", is a JSON object.
NoJsonObjectIn(text) ==
  \A a \in PositionsOf(text, "{"), b \in PositionsOf(text, "}") :
    a < b => JsonParse(SubSeq(text, a, b)).threw

RejectionSignals ==
  {"not covered", "exclusion", "deductible not", "pre-existing", "waiting period",
   "not eligible", "excludes"}

ApprovalSignals == {"covered", "shall be paid", "payable", "benefit", "eligible", "entitled"}

HasSignal(text, signals) ==
  \E k \in signals : \E i \in 1..Len(text) :
    i + Len(k) - 1 <= Len(text) /\ SubSeq(text, i, i + Len(k) - 1) = k

ExpectedDecision(text) ==
  IF HasSignal(text, RejectionSignals) /\ ~HasSignal(text, ApprovalSignals) THEN "rejected"
  ELSE IF HasSignal(text, ApprovalSignals) /\ ~HasSignal(text, RejectionSignals) THEN "approved"
  ELSE "maybe"

ScoreAtLeast(x, y) == x.n * y.d >= y.n * x.d
ScoreEqual(x, y) == x.n * y.d = y.n * x.d
\* Chunk a stands before chunk b in the request's chunk order.
OriginalBefore(a, b) ==
  \/ a.doc_index < b.doc_index
  \/ a.doc_index = b.doc_index /\ a.chunk_index < b.chunk_index
\* The chunk that top entry t was made from.
IsChunkOf(t, c) ==
  /\ t.doc_index = c.doc_index /\ t.chunk_index = c.chunk_index
  /\ t.text = c.text /\ t.source = c.source

\* C7: the selected list has min(6, chunkCount) >= 1 entries, is sorted
\* non-increasing by similarity, holds only chunks of the request and none
\* twice, keeps chunks of equal similarity in their original order, and
\* meta.top_k and meta.chunks_indexed report its size and the chunk count.
C7_TopKSelection ==
  RankingDone =>
    /\ Len(top) = (IF Len(chunks) < 6 THEN Len(chunks) ELSE 6)
    /\ Len(top) >= 1
    /\ \A i \in 1..(Len(top) - 1) : ScoreAtLeast(top[i].score, top[i + 1].score)
    /\ \A i \in 1..Len(top) : \E k \in 1..Len(chunks) : IsChunkOf(top[i], chunks[k])
    /\ \A i, j \in 1..Len(top) :
         i < j => /\ <<top[i].doc_index, top[i].chunk_index>> # <<top[j].doc_index, top[j].chunk_index>>
                  /\ (ScoreEqual(top[i].score, top[j].score) => OriginalBefore(top[i], top[j]))
    /\ (IsSuccess => /\ response.meta.top_k = Len(top)
                     /\ response.meta.chunks_indexed = Len(chunks))

C7_Witness ==
  /\ pc = "done" /\ IsSuccess
  /\ Len(chunks) > 6 /\ Len(top) = 6
  /\ \E i \in 1..5 : ScoreEqual(top[i].score, top[i + 1].score)
  /\ \E i \in 1..5 : ~ScoreEqual(top[i].score, top[i + 1].score)

\* C8: a request that lacks documents or lacks query is answered with status 400
\* and an error object, and no extraction, embedding or generative call is made
\* for it.
C8_ValidationFirst ==
  (req.documents = Undef \/ req.query = Undef) =>
    /\ calls = [extract |-> 0, embed |-> 0, chat |-> 0]
    /\ docs = <<>> /\ chunks = <<>>
    /\ (pc = "done" => response.status = 400 /\ IsError)

C8_Witness ==
  /\ req.documents # Undef /\ req.query = Undef
  /\ pc = "done" /\ response.status = 400 /\ IsError

\* C9: a document whose extraction failed, among several, contributes no chunk
\* to the indexed set, and the request goes on with the chunks of the others at
\* the doc_index of their position in the input.
C9_FailedDocumentHasNoChunks ==
  (pc \in {"embed", "embedQuery", "chat"} /\ Len(documents) > 1) =>
    /\ \A i \in 1..Len(docs) :
         docs[i].error # "" => \A k \in 1..Len(chunks) : chunks[k].doc_index # i - 1
    /\ \A k \in 1..Len(chunks) :
         /\ chunks[k].doc_index \in 0..(Len(documents) - 1)
         /\ chunks[k].source = docs[chunks[k].doc_index + 1].source

\* The window of text that starts at 0-based offset from and has length size.
WindowAt(text, from, size) ==
  IF from + size <= Len(text) THEN SubSeq(text, from + 1, from + size)
  ELSE SubSeq(text, from + 1, Len(text))
\* The first and the last n characters of c (all of c when it is shorter).
HeadOf(c, n) == IF Len(c) <= n THEN c ELSE SubSeq(c, 1, n)
TailOf(c, n) == IF Len(c) <= n THEN c ELSE SubSeq(c, Len(c) - n + 1, Len(c))
ChunkStride == ct.chunkSize - ct.overlap
ChunkCount == IF Len(ct.text) = 0 THEN 0 ELSE ((Len(ct.text) - 1) \div ChunkStride) + 1

\* The chunks are the windows at the multiples of the stride below the text length.
ChunksAreWindows ==
  /\ Len(ct.chunks) = ChunkCount
  /\ \A k \in 1..Len(ct.chunks) :
       ct.chunks[k] = WindowAt(ct.text, (k - 1) * ChunkStride, ct.chunkSize)

\* Every character of the text lies in a chunk.
ChunksCoverText ==
  \A p \in 1..Len(ct.text) :
    \E k \in 1..Len(ct.chunks) :
      LET off == p - (k - 1) * ChunkStride
      IN off \in 1..Len(ct.chunks[k]) /\ CharAt(ct.chunks[k], off) = CharAt(ct.text, p)

\* The tail of chunk k is the head of chunk k + 1, over `overlap` characters.
OverlapAt(k) == TailOf(ct.chunks[k], ct.overlap) = HeadOf(ct.chunks[k + 1], ct.overlap)

\* C10 as stated: for 0 <= overlap < windowSize chunkText returns the windows,
\* they cover the text, and every consecutive pair except possibly the one
\* ending in the final chunk overlaps by exactly `overlap` characters.
C10_OverlapAsStated ==
  ct.pc = "returned" =>
    /\ ChunksAreWindows
    /\ ChunksCoverText
    /\ \A k \in 1..(Len(ct.chunks) - 2) : OverlapAt(k)

\* C10 amended: for 0 <= overlap < windowSize chunkText terminates and returns
\* the windows, which cover the text; a consecutive pair overlaps by exactly
\* `overlap` characters whenever its first chunk has the full window size, which
\* for 2 * overlap <= windowSize is every pair except possibly the one ending in
\* the final chunk.
C10_ChunkTextAmended ==
  /\ [](ct.pc = "returned" =>
          /\ ChunksAreWindows
          /\ ChunksCoverText
          /\ \A k \in 1..(Len(ct.chunks) - 1) :
               Len(ct.chunks[k]) = ct.chunkSize => OverlapAt(k)
          /\ (2 * ct.overlap <= ct.chunkSize =>
                \A k \in 1..(Len(ct.chunks) - 2) : OverlapAt(k)))
  /\ <>(ct.pc = "returned")

C10_Witness ==
  /\ ct.pc = "returned"
  /\ ct.overlap > 0
  /\ 2 * ct.overlap > ct.chunkSize
  /\ Len(ct.chunks) >= 3
  /\ Len(ct.chunks[1]) = ct.chunkSize
  /\ ct.chunks[Len(ct.chunks)] # ct.chunks[1]

====
